---------------------------- MODULE Spec2Model ----------------------------
(***************************************************************************)
(* A model of the RSS feed collector in src/streamlit_app.py: the boolean  *)
(* query translator (parse_boolean_search), the source classifier          *)
(* (categorize_source), the per-keyword fetch and the collection run       *)
(* (fetch_google_news_rss, collect_all_feeds), the session state the       *)
(* script keeps between reruns, and the filter of the Search & Filter tab. *)
(*                                                                         *)
(* Python strings are modelled as sequences of one-character strings, so   *)
(* that str.replace, str.lower and the `in` substring test are computed    *)
(* character by character as Python computes them.                         *)
(***************************************************************************)
EXTENDS Integers, Sequences, FiniteSets, TLC

VARIABLES
  \* --- parse_boolean_search applied to one input ---
  parse_arg,          \* the argument of parse_boolean_search
  parse_result,       \* its return value (<<>> until it has run)
  tpc,                \* "off" | "input" | "done"
  \* --- categorize_source applied to one input ---
  source_name,        \* the argument of categorize_source
  source_category,    \* its return value ("" until it has run)
  cpc,                \* "off" | "input" | "done"
  \* --- one call of collect_all_feeds ---
  keywords,           \* the keyword list passed in
  kw_index,               \* 1-based position of the loop in keywords
  all_articles,       \* the articles accumulated so far
  rpc,                \* "off" | "fetch" | "sleep" | "returned" | "aborted"
  errors,             \* keywords an st.error was shown for, in order
  requests,           \* the queries sent to the provider, in order
  fetch_log,          \* per loop iteration: keyword, outcome, articles, time
  cache,              \* st.cache_data of fetch_google_news_rss, by keyword
  now,                \* the clock, in seconds
  df,                 \* the frame collect_all_feeds returned
  \* --- the Search & Filter tab ---
  has_result,         \* 'articles_df' in st.session_state
  articles_df,        \* st.session_state['articles_df']
  search_term,        \* the text input
  start_date,         \* "From date", a day number
  end_date,           \* "To date", a day number
  selected_keywords,  \* the three multiselects
  selected_categories,
  selected_sources,
  filtered_df,        \* the frame shown
  stats,              \* the three search metrics, when they are shown
  fpc,                \* "off" | "collected" | "shown"
  \* --- the session: keyword management and the Collect button ---
  custom_keywords,    \* st.session_state['custom_keywords']
  new_keyword,        \* the text input beside "Add Keyword", as last submitted
  button,             \* the button the last script run handled, or "none"
  clicks,             \* the number of button clicks so far
  collection_time,    \* st.session_state['collection_time']
  keywords_used       \* st.session_state['keywords_used']

translateVars == <<parse_arg, parse_result, tpc>>
classifyVars  == <<source_name, source_category, cpc>>
runVars == <<keywords, kw_index, all_articles, rpc, errors, requests, fetch_log,
             cache, now, df>>
filterVars == <<has_result, articles_df, search_term, start_date, end_date, selected_keywords,
                selected_categories, selected_sources, filtered_df, stats, fpc>>
sessionVars == <<custom_keywords, new_keyword, button, clicks,
                 collection_time, keywords_used>>
vars == <<translateVars, classifyVars, runVars, filterVars, sessionVars>>

---------------------------------------------------------------------------
(* Strings *)

\* s1 + s2 + ... with sep between the parts (Python's sep.join(parts)).
RECURSIVE Join(_, _)
Join(parts, sep) ==
  IF Len(parts) = 0 THEN <<>>
  ELSE IF Len(parts) = 1 THEN parts[1]
  ELSE parts[1] \o sep \o Join(Tail(parts), sep)

\* All sequences over S of length lo..hi.
SeqsOf(S, lo, hi) == UNION {[1..n -> S] : n \in lo..hi}

UpperChars == <<"A","B","C","D","E","F","G","H","I","J","K","L","M",
                "N","O","P","Q","R","S","T","U","V","W","X","Y","Z">>
LowerChars == <<"a","b","c","d","e","f","g","h","i","j","k","l","m",
                "n","o","p","q","r","s","t","u","v","w","x","y","z">>

\* Python's s[m-1:n]: the characters at positions m..n (1-based) that exist.
Slice(s, m, n) ==
  LET hi == IF n < Len(s) THEN n ELSE Len(s)
  IN  IF hi < m THEN <<>> ELSE SubSeq(s, m, hi)

\* str.lower() on one ASCII character.
LowerChar(c) ==
  IF \E i \in 1..Len(UpperChars) : UpperChars[i] = c
  THEN LowerChars[CHOOSE i \in 1..Len(UpperChars) : UpperChars[i] = c]
  ELSE c

\* str.lower()
Lower(s) == [i \in 1..Len(s) |-> LowerChar(s[i])]

\* Python's `term in s` for strings: term occurs as a contiguous substring.
IsSubstring(term, s) ==
  \E i \in 0..(Len(s) - Len(term)) : SubSeq(s, i + 1, i + Len(term)) = term

\* str.replace(old, new): every non-overlapping occurrence of old, scanning
\* left to right, is replaced; the scan resumes after the replaced occurrence.
RECURSIVE Replace(_, _, _)
Replace(s, old, new) ==
  IF Len(s) < Len(old) THEN s
  ELSE IF SubSeq(s, 1, Len(old)) = old
       THEN new \o Replace(SubSeq(s, Len(old) + 1, Len(s)), old, new)
       ELSE <<s[1]>> \o Replace(Tail(s), old, new)

---------------------------------------------------------------------------
(* parse_boolean_search *)

NOT_TOKEN == <<" ", "N", "O", "T", " ">>
AND_TOKEN == <<" ", "A", "N", "D", " ">>
EXCLUDE   == <<" ", "-">>
SPACE     == <<" ">>

\* The same rewrite with the two substitutions in the other order.
parse_boolean_search_and_first(term) ==
  Replace(Replace(term, AND_TOKEN, SPACE), NOT_TOKEN, EXCLUDE)

parse_boolean_search(term) ==
  LET after_not == Replace(term, NOT_TOKEN, EXCLUDE)
  IN  Replace(after_not, AND_TOKEN, SPACE)

---------------------------------------------------------------------------
(* categorize_source *)

mainstream ==
  << <<"c", "n", "n">>,
     <<"b", "b", "c">>,
     <<"r", "e", "u", "t", "e", "r", "s">>,
     <<"a", "s", "s", "o", "c", "i", "a", "t", "e", "d", " ", "p", "r", "e", "s", "s">>,
     <<"a", "p", " ", "n", "e", "w", "s">>,
     <<"b", "l", "o", "o", "m", "b", "e", "r", "g">>,
     <<"f", "i", "n", "a", "n", "c", "i", "a", "l", " ", "t", "i", "m", "e", "s">>,
     <<"w", "a", "l", "l", " ", "s", "t", "r", "e", "e", "t", " ", "j", "o", "u", "r", "n", "a", "l">>,
     <<"w", "s", "j">>,
     <<"n", "e", "w", " ", "y", "o", "r", "k", " ", "t", "i", "m", "e", "s">>,
     <<"n", "y", "t">>,
     <<"w", "a", "s", "h", "i", "n", "g", "t", "o", "n", " ", "p", "o", "s", "t">>,
     <<"g", "u", "a", "r", "d", "i", "a", "n">>,
     <<"t", "e", "l", "e", "g", "r", "a", "p", "h">>,
     <<"f", "o", "x", " ", "n", "e", "w", "s">>,
     <<"n", "b", "c">>,
     <<"a", "b", "c">>,
     <<"c", "b", "s">>,
     <<"n", "p", "r">>,
     <<"p", "b", "s">>,
     <<"u", "s", "a", " ", "t", "o", "d", "a", "y">>,
     <<"t", "i", "m", "e">>,
     <<"n", "e", "w", "s", "w", "e", "e", "k">>,
     <<"e", "c", "o", "n", "o", "m", "i", "s", "t">>,
     <<"f", "o", "r", "b", "e", "s">>,
     <<"f", "o", "r", "t", "u", "n", "e">>,
     <<"b", "u", "s", "i", "n", "e", "s", "s", " ", "i", "n", "s", "i", "d", "e", "r">>,
     <<"c", "n", "b", "c">>,
     <<"m", "a", "r", "k", "e", "t", "w", "a", "t", "c", "h">>,
     <<"a", "x", "i", "o", "s">> >>

trade_press ==
  << <<"t", "e", "c", "h", "c", "r", "u", "n", "c", "h">>,
     <<"t", "h", "e", " ", "v", "e", "r", "g", "e">>,
     <<"w", "i", "r", "e", "d">>,
     <<"a", "r", "s", " ", "t", "e", "c", "h", "n", "i", "c", "a">>,
     <<"z", "d", "n", "e", "t">>,
     <<"c", "n", "e", "t">>,
     <<"v", "e", "n", "t", "u", "r", "e", "b", "e", "a", "t">>,
     <<"r", "e", "c", "o", "d", "e">>,
     <<"e", "n", "g", "a", "d", "g", "e", "t">>,
     <<"g", "i", "z", "m", "o", "d", "o">>,
     <<"m", "a", "s", "h", "a", "b", "l", "e">>,
     <<"g", "r", "e", "e", "n", "t", "e", "c", "h">>,
     <<"r", "e", "n", "e", "w", "a", "b", "l", "e", " ", "e", "n", "e", "r", "g", "y", " ", "w", "o", "r", "l", "d">>,
     <<"e", "n", "e", "r", "g", "y", " ", "s", "t", "o", "r", "a", "g", "e", " ", "n", "e", "w", "s">>,
     <<"u", "t", "i", "l", "i", "t", "y", " ", "d", "i", "v", "e">>,
     <<"p", "o", "w", "e", "r">>,
     <<"p", "v", " ", "m", "a", "g", "a", "z", "i", "n", "e">>,
     <<"s", "o", "l", "a", "r", " ", "p", "o", "w", "e", "r", " ", "w", "o", "r", "l", "d">>,
     <<"w", "i", "n", "d", " ", "p", "o", "w", "e", "r", " ", "m", "o", "n", "t", "h", "l", "y">>,
     <<"c", "l", "e", "a", "n", "t", "e", "c", "h", "n", "i", "c", "a">>,
     <<"e", "l", "e", "c", "t", "r", "e", "k">>,
     <<"g", "r", "e", "e", "n", " ", "c", "a", "r", " ", "r", "e", "p", "o", "r", "t", "s">>,
     <<"i", "n", "s", "i", "d", "e", " ", "e", "v", "s">>,
     <<"a", "u", "t", "o", "m", "o", "t", "i", "v", "e", " ", "n", "e", "w", "s">>,
     <<"t", "r", "a", "d", "e">>,
     <<"i", "n", "d", "u", "s", "t", "r", "y", " ", "w", "e", "e", "k">>,
     <<"m", "a", "n", "u", "f", "a", "c", "t", "u", "r", "i", "n", "g">>,
     <<"c", "h", "e", "m", "i", "c", "a", "l">>,
     <<"e", "n", "g", "i", "n", "e", "e", "r", "i", "n", "g">> >>

blogs ==
  << <<"m", "e", "d", "i", "u", "m">>,
     <<"s", "u", "b", "s", "t", "a", "c", "k">>,
     <<"b", "l", "o", "g">>,
     <<"b", "l", "o", "g", "g", "e", "r">>,
     <<"w", "o", "r", "d", "p", "r", "e", "s", "s">>,
     <<"t", "u", "m", "b", "l", "r">>,
     <<"g", "h", "o", "s", "t">>,
     <<"w", "r", "i", "t", "e", "f", "r", "e", "e", "l", "y">>,
     <<"n", "e", "w", "s", "l", "e", "t", "t", "e", "r">>,
     <<"i", "n", "d", "e", "p", "e", "n", "d", "e", "n", "t">>,
     <<"p", "e", "r", "s", "o", "n", "a", "l", " ", "s", "i", "t", "e">> >>

government_academic ==
  << <<".", "g", "o", "v">>,
     <<"g", "o", "v", "e", "r", "n", "m", "e", "n", "t">>,
     <<"d", "e", "p", "a", "r", "t", "m", "e", "n", "t", " ", "o", "f">>,
     <<"m", "i", "n", "i", "s", "t", "r", "y", " ", "o", "f">>,
     <<"a", "g", "e", "n", "c", "y">>,
     <<"u", "n", "i", "v", "e", "r", "s", "i", "t", "y">>,
     <<"c", "o", "l", "l", "e", "g", "e">>,
     <<"i", "n", "s", "t", "i", "t", "u", "t", "e">>,
     <<"r", "e", "s", "e", "a", "r", "c", "h">>,
     <<"a", "c", "a", "d", "e", "m", "i", "c">>,
     <<".", "e", "d", "u">>,
     <<"j", "o", "u", "r", "n", "a", "l">>,
     <<"n", "a", "t", "u", "r", "e">>,
     <<"s", "c", "i", "e", "n", "c", "e">>,
     <<"p", "n", "a", "s">>,
     <<"a", "r", "x", "i", "v">> >>

ngo_thinktank ==
  << <<"g", "r", "e", "e", "n", "p", "e", "a", "c", "e">>,
     <<"w", "w", "f">>,
     <<"n", "r", "d", "c">>,
     <<"s", "i", "e", "r", "r", "a", " ", "c", "l", "u", "b">>,
     <<"f", "r", "i", "e", "n", "d", "s", " ", "o", "f", " ", "t", "h", "e", " ", "e", "a", "r", "t", "h">>,
     <<"b", "r", "o", "o", "k", "i", "n", "g", "s">>,
     <<"c", "a", "t", "o">>,
     <<"h", "e", "r", "i", "t", "a", "g", "e">>,
     <<"c", "f", "r">>,
     <<"c", "a", "r", "n", "e", "g", "i", "e">>,
     <<"r", "a", "n", "d">>,
     <<"c", "e", "n", "t", "e", "r", " ", "f", "o", "r">>,
     <<"i", "n", "s", "t", "i", "t", "u", "t", "e", " ", "f", "o", "r">>,
     <<"f", "o", "u", "n", "d", "a", "t", "i", "o", "n">>,
     <<"c", "o", "u", "n", "c", "i", "l", " ", "o", "n">> >>

local_regional ==
  << <<"t", "r", "i", "b", "u", "n", "e">>,
     <<"g", "a", "z", "e", "t", "t", "e">>,
     <<"h", "e", "r", "a", "l", "d">>,
     <<"t", "i", "m", "e", "s">>,
     <<"p", "o", "s", "t">>,
     <<"n", "e", "w", "s">>,
     <<"d", "a", "i", "l", "y">>,
     <<"c", "h", "r", "o", "n", "i", "c", "l", "e">>,
     <<"j", "o", "u", "r", "n", "a", "l">>,
     <<"o", "b", "s", "e", "r", "v", "e", "r">>,
     <<"e", "x", "a", "m", "i", "n", "e", "r">>,
     <<"c", "o", "u", "r", "i", "e", "r">>,
     <<"p", "r", "e", "s", "s">>,
     <<"l", "o", "c", "a", "l">>,
     <<"r", "e", "g", "i", "o", "n", "a", "l">>,
     <<"c", "o", "m", "m", "u", "n", "i", "t", "y">>,
     <<"c", "o", "u", "n", "t", "y">>,
     <<"c", "i", "t", "y">> >>

\* True iff some term of the rule list occurs in the lower-cased name
\* (the body of one `for term in list: if term in source_lower` loop).
AnyTermIn(terms, source_lower) ==
  \E i \in 1..Len(terms) : IsSubstring(terms[i], source_lower)

CatMainstream == "Mainstream Media"
CatTrade == "Trade Press"
CatGovAcademic == "Government/Academic"
CatNgo == "NGO/Think Tank"
CatBlogs == "Blogs/Independent"
CatLocal == "Local/Regional"
CatOther == "Other"

\* The loops run in the order the lists are defined (blogs before
\* government_academic and ngo_thinktank) instead of the order of the checks.
categorize_source_definition_order(name) ==
  LET source_lower == Lower(name) IN
  IF AnyTermIn(mainstream, source_lower) THEN CatMainstream
  ELSE IF AnyTermIn(trade_press, source_lower) THEN CatTrade
  ELSE IF AnyTermIn(blogs, source_lower) THEN CatBlogs
  ELSE IF AnyTermIn(government_academic, source_lower) THEN CatGovAcademic
  ELSE IF AnyTermIn(ngo_thinktank, source_lower) THEN CatNgo
  ELSE IF AnyTermIn(local_regional, source_lower) THEN CatLocal
  ELSE CatOther

\* The default return is missing: a name no list matches gets the sentinel
\* "Unknown" the collector uses for a missing source.
categorize_source_no_default(name) ==
  LET source_lower == Lower(name) IN
  IF AnyTermIn(mainstream, source_lower) THEN CatMainstream
  ELSE IF AnyTermIn(trade_press, source_lower) THEN CatTrade
  ELSE IF AnyTermIn(government_academic, source_lower) THEN CatGovAcademic
  ELSE IF AnyTermIn(ngo_thinktank, source_lower) THEN CatNgo
  ELSE IF AnyTermIn(blogs, source_lower) THEN CatBlogs
  ELSE IF AnyTermIn(local_regional, source_lower) THEN CatLocal
  ELSE "Unknown"

categorize_source(name) ==
  LET source_lower == Lower(name) IN
  IF AnyTermIn(mainstream, source_lower) THEN CatMainstream
  ELSE IF AnyTermIn(trade_press, source_lower) THEN CatTrade
  ELSE IF AnyTermIn(government_academic, source_lower) THEN CatGovAcademic
  ELSE IF AnyTermIn(ngo_thinktank, source_lower) THEN CatNgo
  ELSE IF AnyTermIn(blogs, source_lower) THEN CatBlogs
  ELSE IF AnyTermIn(local_regional, source_lower) THEN CatLocal
  ELSE CatOther

---------------------------------------------------------------------------
(* fetch_google_news_rss *)

\* The ASCII characters from code 32 (the space) to code 126, in code
\* order, but for code 96, which no string of this module can hold.
AsciiPrintable ==
  << " ", "!", "\"", "#", "$", "%", "&", "'", "(", ")", "*", "+",
     ",", "-", ".", "/", "0", "1", "2", "3", "4", "5", "6", "7",
     "8", "9", ":", ";", "<", "=", ">", "?", "@", "A", "B", "C",
     "D", "E", "F", "G", "H", "I", "J", "K", "L", "M", "N", "O",
     "P", "Q", "R", "S", "T", "U", "V", "W", "X", "Y", "Z", "[",
     "\\", "]", "^", "_", "a", "b", "c", "d", "e", "f", "g",
     "h", "i", "j", "k", "l", "m", "n", "o", "p", "q", "r", "s",
     "t", "u", "v", "w", "x", "y", "z", "{", "|", "}", "~" >>

\* ord(c) for an ASCII character: a tab, a line feed, a carriage return, or
\* a character of AsciiPrintable.
AsciiCode(c) ==
  IF c = "\t" THEN 9
  ELSE IF c = "\n" THEN 10
  ELSE IF c = "\r" THEN 13
  ELSE LET n == CHOOSE m \in 1..Len(AsciiPrintable) : AsciiPrintable[m] = c
       IN  IF n <= 64 THEN 31 + n ELSE 32 + n

HexDigits ==
  <<"0", "1", "2", "3", "4", "5", "6", "7", "8", "9", "A", "B", "C", "D", "E", "F">>

\* "%XX", XX the code of the character in upper-case hexadecimal.
PercentEncode(c) ==
  <<"%", HexDigits[(AsciiCode(c) \div 16) + 1], HexDigits[(AsciiCode(c) % 16) + 1]>>

\* The characters quote_plus never encodes: letters, digits and "_.-~".
IsUnreserved(c) ==
  LET code == AsciiCode(c)
  IN  \/ code >= 48 /\ code <= 57
      \/ code >= 65 /\ code <= 90
      \/ code >= 97 /\ code <= 122
      \/ c \in {"_", ".", "-", "~"}

\* urllib.parse.quote_plus on one ASCII character: a space becomes "+", an
\* unreserved character stays, anything else is percent-encoded.  (A
\* character outside ASCII, encoded byte by byte from its UTF-8 form in the
\* code, is outside the domain of this operator.)
QuoteChar(c) ==
  IF c = " " THEN <<"+">>
  ELSE IF IsUnreserved(c) THEN <<c>>
  ELSE PercentEncode(c)

RECURSIVE quote_plus(_)
quote_plus(s) ==
  IF Len(s) = 0 THEN <<>> ELSE QuoteChar(s[1]) \o quote_plus(Tail(s))

\* The q parameter of the request URL built for a keyword (the rest of the
\* URL is the same for every keyword).
request_query(keyword) == quote_plus(parse_boolean_search(keyword))

SecondsPerDay == 86400

\* The published strings of the model's feeds that dateutil parses, with
\* the instant each denotes: day 0 is 2023-12-31, and a timestamp counts
\* seconds from the start of day 0 (UTC).  The provider's pubDate strings
\* carry whole seconds and the GMT zone.
DateTable ==
  { [text |-> "Mon, 01 Jan 2024 00:00:00 GMT", day |-> 1, sec |-> 0],
    [text |-> "Mon, 01 Jan 2024 10:00:00 GMT", day |-> 1, sec |-> 36000],
    [text |-> "Tue, 02 Jan 2024 23:59:59 GMT", day |-> 2, sec |-> 86399] }

NaT == [isna |-> TRUE, ts |-> 0]
Timestamp(day, sec) == [isna |-> FALSE, ts |-> day * SecondsPerDay + sec]

\* published_date of one entry: None when the string is empty or
\* date_parser.parse raises on it, else the parsed instant.
parse_published(published_str) ==
  IF published_str = "" THEN NaT
  ELSE IF \E d \in DateTable : d.text = published_str
       THEN LET d == CHOOSE d \in DateTable : d.text = published_str
            IN  Timestamp(d.day, d.sec)
       ELSE NaT

UNKNOWN == <<"U", "n", "k", "n", "o", "w", "n">>

\* An entry of a parsed feed is a record of the fields the collector reads;
\* has_source is FALSE when the entry has no source element.
entry_source_name(entry) == IF entry.has_source THEN entry.source_title ELSE UNKNOWN

\* The article tagged with the translated query instead of the keyword.
make_article_parsed_keyword(keyword, entry) ==
  [ Keyword         |-> parse_boolean_search(keyword),
    Title           |-> entry.title,
    URL             |-> entry.link,
    Published       |-> entry.published,
    Published_Date  |-> parse_published(entry.published),
    Source          |-> entry_source_name(entry),
    Source_Category |-> categorize_source(entry_source_name(entry)),
    Description     |-> entry.summary ]

\* The dict built for one entry.
make_article(keyword, entry) ==
  [ Keyword         |-> keyword,
    Title           |-> entry.title,
    URL             |-> entry.link,
    Published       |-> entry.published,
    Published_Date  |-> parse_published(entry.published),
    Source          |-> entry_source_name(entry),
    Source_Category |-> categorize_source(entry_source_name(entry)),
    Description     |-> entry.summary ]

\* The body without its try/except: a failing request propagates.
fetch_body_uncaught(keyword, response) ==
  IF response.ok
  THEN [ articles |-> [n \in 1..Len(response.entries) |->
                         make_article(keyword, response.entries[n])],
         error |-> FALSE, raised |-> FALSE ]
  ELSE [ articles |-> <<>>, error |-> FALSE, raised |-> TRUE ]

\* The body of fetch_google_news_rss on a cache miss, given what
\* feedparser.parse does for the request: response.ok is FALSE when it
\* raises.  error: st.error was called; raised: an exception left the
\* function (never, every Exception is caught).
fetch_body(keyword, response) ==
  IF response.ok
  THEN [ articles |-> [n \in 1..Len(response.entries) |->
                         make_article(keyword, response.entries[n])],
         error |-> FALSE, raised |-> FALSE ]
  ELSE [ articles |-> <<>>, error |-> TRUE, raised |-> FALSE ]

TTL == 3600

\* time.sleep(1) after each keyword.
PacingDelay == 1

\* The loop going on to the next keyword without a pause.
time_sleep_skipped(now_) == now_

\* Line 178: the clock when time.sleep(1) returns.
time_sleep(now_) == now_ + PacingDelay

NoEntry == [present |-> FALSE, stored_at |-> 0, articles |-> <<>>, error |-> FALSE]

\* An entry served whatever its age.
cache_hit_any_age(cache_, keyword, now_) == cache_[keyword].present

\* @st.cache_data(ttl=3600): an entry is served while it is younger than
\* the time-to-live.
cache_hit(cache_, keyword, now_) ==
  /\ cache_[keyword].present
  /\ now_ - cache_[keyword].stored_at < TTL

---------------------------------------------------------------------------
(* collect_all_feeds *)

\* drop_duplicates keeping the last row of each URL.
RECURSIVE drop_duplicates_keep_last(_)
drop_duplicates_keep_last(rows) ==
  IF Len(rows) = 0 THEN <<>>
  ELSE LET rest == Tail(rows)
       IN  IF \E j \in 1..Len(rest) : rest[j].URL = rows[1].URL
           THEN drop_duplicates_keep_last(rest)
           ELSE <<rows[1]>> \o drop_duplicates_keep_last(rest)

\* df.drop_duplicates(subset=['URL'], keep='first'): a row stays iff no
\* earlier row has the same URL value; the rows kept stay in order.
drop_duplicates(rows) ==
  LET keep(n) == \A j \in 1..(n - 1) : rows[j].URL # rows[n].URL
      F[n \in 0..Len(rows)] ==
        IF n = 0 THEN <<>>
        ELSE IF keep(n) THEN Append(F[n - 1], rows[n]) ELSE F[n - 1]
  IN  F[Len(rows)]

\* Lines 181-185: the frame of all articles, deduplicated unless empty.
dedup_frame(all) == IF Len(all) # 0 THEN drop_duplicates(all) ELSE all

---------------------------------------------------------------------------
(* The filters of the Search & Filter tab (lines 507-539) *)

\* One position of Series.str.contains(pat, case=False): the pattern is a
\* regular expression, in which "." stands for any character but a line
\* feed; every other character of the patterns modelled stands for itself,
\* compared without regard to case.
char_matches(p, c) ==
  IF p = "." THEN c # "\n" ELSE LowerChar(p) = LowerChar(c)

\* Series.str.contains(pat, case=False, na=False) on one string value.
str_contains(text, pat) ==
  \E n \in 0..(Len(text) - Len(pat)) :
    \A m \in 1..Len(pat) : char_matches(pat[m], text[n + m])

\* pd.Timestamp(start_date), and pd.Timestamp(end_date) + 1 day - 1 second.
start_datetime(start) == start * SecondsPerDay
end_datetime(end) == end * SecondsPerDay + SecondsPerDay - 1

\* Lines 517-524 with the null-dated rows left out of the mask.
date_mask_drop_null(rows, row, start, end) ==
  /\ ~row.Published_Date.isna
  /\ row.Published_Date.ts >= start_datetime(start)
  /\ row.Published_Date.ts <= end_datetime(end)

\* Lines 517-524: the mask starts as isna(); if any row has a date, the rows
\* whose date, its timezone dropped (the dates are GMT), lies in the range
\* are added to it.
date_mask(rows, row, start, end) ==
  IF \E n \in 1..Len(rows) : ~rows[n].Published_Date.isna
  THEN \/ row.Published_Date.isna
       \/ /\ ~row.Published_Date.isna
          /\ row.Published_Date.ts >= start_datetime(start)
          /\ row.Published_Date.ts <= end_datetime(end)
  ELSE row.Published_Date.isna

\* Lines 527-530.
search_mask(row, term) ==
  str_contains(row.Title, term) \/ str_contains(row.Description, term)

\* `if selected: frame = frame[frame[column].isin(selected)]`
isin_filter(rows, column, selected) ==
  IF selected # {}
  THEN SelectSeq(rows, LAMBDA row : row[column] \in selected)
  ELSE rows

\* The keyword filter applied whether or not a keyword is selected.
keyword_filter_unguarded(rows, selected) ==
  SelectSeq(rows, LAMBDA row : row.Keyword \in selected)

\* The category filter applied whether or not a category is selected.
category_filter_unguarded(rows, selected) ==
  SelectSeq(rows, LAMBDA row : row.Source_Category \in selected)

keyword_filter(rows, selected)  == isin_filter(rows, "Keyword", selected)
category_filter(rows, selected) == isin_filter(rows, "Source_Category", selected)
source_filter(rows, selected)   == isin_filter(rows, "Source", selected)

\* Lines 507-539: filtered_df, from the collected frame and the widgets.
apply_filters(rows, term, start, end, kws, cats, srcs) ==
  LET by_date == SelectSeq(rows, LAMBDA row : date_mask(rows, row, start, end))
      by_text == IF term # <<>>
                 THEN SelectSeq(by_date, LAMBDA row : search_mask(row, term))
                 ELSE by_date
      by_keyword  == keyword_filter(by_text, kws)
      by_category == category_filter(by_keyword, cats)
  IN  source_filter(by_category, srcs)

Column(rows, column) == {rows[n][column] : n \in 1..Len(rows)}

---------------------------------------------------------------------------
(* Keyword management in the sidebar (lines 208-242) *)

Range(s) == {s[n] : n \in 1..Len(s)}

\* The characters str.strip() removes, of those the inputs are made of.
Whitespace == {" ", "\t", "\n"}

RECURSIVE lstrip(_)
lstrip(s) ==
  IF s # <<>> /\ Head(s) \in Whitespace THEN lstrip(Tail(s)) ELSE s

RECURSIVE rstrip(_)
rstrip(s) ==
  IF s # <<>> /\ s[Len(s)] \in Whitespace
  THEN rstrip(SubSeq(s, 1, Len(s) - 1)) ELSE s

\* str.strip()
strip(s) == rstrip(lstrip(s))

\* The list after "Add Keyword", the presence test made on the text as
\* typed and not on the stripped text.
add_keyword_unstripped_test(custom, text) ==
  IF text # <<>> /\ strip(text) # <<>>
  THEN IF text \notin Range(custom)
       THEN Append(custom, strip(text))
       ELSE custom
  ELSE custom

\* Lines 208-217: the list after "Add Keyword" with `text` in the input.
add_keyword(custom, text) ==
  IF text # <<>> /\ strip(text) # <<>>
  THEN IF strip(text) \notin Range(custom)
       THEN Append(custom, strip(text))
       ELSE custom
  ELSE custom

\* list.remove(x): the list without the first element equal to x.
RECURSIVE list_remove(_, _)
list_remove(list, x) ==
  IF list = <<>> THEN <<>>
  ELSE IF Head(list) = x THEN Tail(list)
  ELSE <<Head(list)>> \o list_remove(Tail(list), x)

\* Lines 224-237: the list after the delete button of row n.
delete_keyword(custom, n) == list_remove(custom, custom[n])

---------------------------------------------------------------------------
(* The search statistics of the Search & Filter tab (lines 565-602) *)

\* The size of the collected frame (total_before_search, line 569) in the
\* place of that of temp_df.
total_before_search(rows, start, end, kws, cats, srcs) == Len(rows)

\* Lines 571-589: len(temp_df), temp_df being the collected frame after the
\* date, keyword, category and source filters, the text search left out.
articles_before_search(rows, start, end, kws, cats, srcs) ==
  LET by_date == SelectSeq(rows, LAMBDA row : date_mask(rows, row, start, end))
      by_keyword  == keyword_filter(by_date, kws)
      by_category == category_filter(by_keyword, cats)
  IN  Len(source_filter(by_category, srcs))

\* The nearest integer to num / den, a tie going to the even neighbour.
RoundHalfEven(num, den) ==
  LET q == num \div den
      r == num % den
  IN  IF 2 * r < den THEN q
      ELSE IF 2 * r > den THEN q + 1
      ELSE IF q % 2 = 0 THEN q ELSE q + 1

\* Lines 599-600: match_rate as the metric shows it, f"{match_rate:.1f}",
\* in tenths of a percent; 0 when nothing passes the other filters.  The
\* code divides in double precision; the exact quotient rounded here is the
\* same figure for every frame of fewer than 80 rows.
match_rate(search_matches, before) ==
  IF before > 0 THEN RoundHalfEven(search_matches * 1000, before) ELSE 0

NoStats ==
  [reported |-> FALSE, articles_before_search |-> 0, search_matches |-> 0,
   match_rate |-> 0]

\* Lines 565-602: the three metrics are shown when filtered_df has rows and
\* a search term is given; otherwise none is.
search_stats(rows, filtered, term, start, end, kws, cats, srcs) ==
  IF Len(filtered) > 0 /\ term # <<>>
  THEN LET before == articles_before_search(rows, start, end, kws, cats, srcs)
       IN  [reported |-> TRUE,
            articles_before_search |-> before,
            search_matches |-> Len(filtered),
            match_rate |-> match_rate(Len(filtered), before)]
  ELSE NoStats

---------------------------------------------------------------------------
(* Bounds *)

\* Longest translator input, in whitespace-separated tokens.
MaxTokens == 4
\* Longest source name given to the classifier, in words.
MaxWords == 2
\* Longest keyword list given to a collection run.
MaxKeywords == 2
\* Most entries in one feed the provider returns.
MaxEntries == 2
\* Most rows in a collected frame given to the filter.
MaxRows == 2
\* Last day the date inputs can give (day 0 is 2023-12-31).
MaxDay == 2
\* The most button clicks in one session.
MaxClicks == 4

---------------------------------------------------------------------------
(* The inputs the specifications draw from *)

\* "Tesla" and "Tesla NOT stock"
KeywordPool ==
  { <<"T", "e", "s", "l", "a">>,
    <<"T", "e", "s", "l", "a", " ", "N", "O", "T", " ", "s", "t", "o", "c", "k">> }

\* The entries the provider's feeds are made of: two entries with the same
\* link and different titles (the summary of the second holds a line feed),
\* one with no link, no parseable date and no source element, and one with
\* a link of its own.
EntryPool ==
  { [ title |-> <<"S", "o", "l", "a", "r", " ", "b", "o", "o", "m">>,
          link |-> "https://n.example/1",
      published |-> "Mon, 01 Jan 2024 00:00:00 GMT",
      has_source |-> TRUE, source_title |-> <<"B", "B", "C", " ", "N", "e", "w", "s">>,
              summary |-> <<"a", ".", "b">> ],
    [ title |-> <<"S", "o", "l", "a", "r", " ", "(", "u", "p", "d", "a", "t", "e", ")">>,
            link |-> "https://n.example/1",
      published |-> "",
      has_source |-> TRUE,
              source_title |-> <<"S", "o", "l", "a", "r", " ", "P", "o", "w", "e", "r", " ", "W", "o", "r", "l", "d">>,
              summary |-> <<"w", "\n", "n", "d">> ],
    [ title |-> <<"W", "i", "n", "d">>, link |-> "",
      published |-> "soon",
      has_source |-> FALSE, source_title |-> <<>>,
              summary |-> <<"w", "i", "n", "d", " ", "f", "a", "r", "m">> ],
    [ title |-> <<"C", "+", "+", " ", "t", "i", "p", "s">>, link |-> "https://n.example/2",
      published |-> "Tue, 02 Jan 2024 23:59:59 GMT",
      has_source |-> TRUE,
              source_title |-> <<"T", "h", "e", " ", "D", "a", "i", "l", "y", " ", "H", "e", "r", "a", "l", "d">>,
      summary |-> <<"S", "o", "l", "a", "r", " ", "p", "a", "n", "e", "l", "s">> ] }

\* What feedparser.parse can do for one request: raise, or return a feed.
ProviderResponses ==
  { [ok |-> FALSE, entries |-> <<>>] }
    \cup { [ok |-> TRUE, entries |-> es] : es \in SeqsOf(EntryPool, 0, MaxEntries) }

\* The frames a collection can leave in the session: deduplicated, and
\* never empty (an empty result is not stored).
ArticlePool == { make_article(k, e) : k \in KeywordPool, e \in EntryPool }
SessionFrames == { dedup_frame(rows) : rows \in SeqsOf(ArticlePool, 1, MaxRows) }

\* What the text input can hold.
SearchTerms == { <<>>, <<"S", "O", "L", "A", "R">>, <<"w", ".", "n", "d">> }

\* The dates the two date inputs and the quick filters can give: day 0 is
\* 2023-12-31.
Days == 0..MaxDay

---------------------------------------------------------------------------
(* Each specification below runs one part of the program; the variables of
   the other parts stay at these values. *)

TranslateOff == parse_arg = <<>> /\ parse_result = <<>> /\ tpc = "off"
ClassifyOff  == source_name = <<>> /\ source_category = "" /\ cpc = "off"

RunOff ==
  /\ keywords = <<>> /\ kw_index = 0 /\ all_articles = <<>> /\ rpc = "off"
  /\ errors = <<>> /\ requests = <<>> /\ fetch_log = <<>>
  /\ cache = [k \in KeywordPool |-> NoEntry] /\ now = 0 /\ df = <<>>

FilterOff ==
  /\ has_result = FALSE
  /\ articles_df = <<>> /\ search_term = <<>> /\ start_date = 0 /\ end_date = 0
  /\ selected_keywords = {} /\ selected_categories = {} /\ selected_sources = {}
  /\ filtered_df = <<>> /\ stats = NoStats /\ fpc = "off"

\* Lines 24-25: the keyword list starts empty; no result is stored yet.
SessionOff ==
  /\ custom_keywords = <<>> /\ new_keyword = <<>> /\ button = "none"
  /\ clicks = 0
  /\ collection_time = 0 /\ keywords_used = <<>>

---------------------------------------------------------------------------
(* The translator applied to one expression *)

\* The tokens an expression is built from; the empty token makes a doubled
\* space when joined.
Tokens ==
  { <<"A">>, <<"B">>, <<"N", "O", "T">>, <<"A", "N", "D">>, <<"O", "R">>,
    <<"(", "A">>, <<"B", ")">>, <<>> }

TranslateInputs == { Join(ts, SPACE) : ts \in SeqsOf(Tokens, 1, MaxTokens) }

TranslateInit ==
  /\ parse_arg \in TranslateInputs
  /\ parse_result = <<>>
  /\ tpc = "input"

Translate ==
  /\ tpc = "input"
  /\ parse_result' = parse_boolean_search(parse_arg)
  /\ tpc' = "done"
  /\ UNCHANGED <<parse_arg, classifyVars, runVars, filterVars, sessionVars>>

InitTranslate ==
  TranslateInit /\ ClassifyOff /\ RunOff /\ FilterOff /\ SessionOff

SpecTranslate == InitTranslate /\ [][Translate]_vars

---------------------------------------------------------------------------
(* The classifier applied to one source name *)

\* Times, BBC, Daily, Blog, Power, Journal, Brand, Herald, Acme, Institute,
\* Independent, Post
NameWords ==
  { <<"T", "i", "m", "e", "s">>,
    <<"B", "B", "C">>,
    <<"D", "a", "i", "l", "y">>,
    <<"B", "l", "o", "g">>,
    <<"P", "o", "w", "e", "r">>,
    <<"J", "o", "u", "r", "n", "a", "l">>,
    <<"B", "r", "a", "n", "d">>,
    <<"H", "e", "r", "a", "l", "d">>,
    <<"A", "c", "m", "e">>,
    <<"I", "n", "s", "t", "i", "t", "u", "t", "e">>,
    <<"I", "n", "d", "e", "p", "e", "n", "d", "e", "n", "t">>,
    <<"P", "o", "s", "t">> }

ClassifyInputs == { Join(ws, SPACE) : ws \in SeqsOf(NameWords, 0, MaxWords) }

ClassifyInit ==
  /\ source_name \in ClassifyInputs
  /\ source_category = ""
  /\ cpc = "input"

Classify ==
  /\ cpc = "input"
  /\ source_category' = categorize_source(source_name)
  /\ cpc' = "done"
  /\ UNCHANGED <<source_name, translateVars, runVars, filterVars, sessionVars>>

InitClassify ==
  ClassifyInit /\ TranslateOff /\ RunOff /\ FilterOff /\ SessionOff

SpecClassify == InitClassify /\ [][Classify]_vars

---------------------------------------------------------------------------
(* One call of collect_all_feeds(progress_bar, status_text, keywords) *)

\* The call starts with a keyword list, an empty article list, and the
\* cache of a freshly started server.
RunInit ==
  /\ keywords \in SeqsOf(KeywordPool, 0, MaxKeywords)
  /\ kw_index = 1
  /\ all_articles = <<>>
  /\ rpc = "fetch"
  /\ errors = <<>>
  /\ requests = <<>>
  /\ fetch_log = <<>>
  /\ cache = [k \in KeywordPool |-> NoEntry]
  /\ now = 0
  /\ df = <<>>

\* Lines 174-177 when the cache holds a live entry for the keyword: the
\* stored articles are returned with no request (and the st.error the stored
\* call made is shown again).
FetchCached ==
  /\ rpc = "fetch" /\ kw_index <= Len(keywords)
  /\ cache_hit(cache, keywords[kw_index], now)
  /\ LET entry == cache[keywords[kw_index]] IN
       /\ all_articles' = all_articles \o entry.articles
       /\ errors' = IF entry.error THEN Append(errors, keywords[kw_index]) ELSE errors
       /\ fetch_log' = Append(fetch_log,
            [keyword |-> keywords[kw_index], outcome |-> "cached",
             articles |-> entry.articles, at |-> now])
  /\ rpc' = "sleep"
  /\ UNCHANGED <<keywords, kw_index, requests, cache, now, df>>
  /\ UNCHANGED <<translateVars, classifyVars, filterVars, sessionVars>>

\* Lines 174-177 on a cache miss: the function body runs against the
\* provider, its return value is stored in the cache and appended.
FetchFromProviderOf(responses) ==
  /\ rpc = "fetch" /\ kw_index <= Len(keywords)
  /\ ~cache_hit(cache, keywords[kw_index], now)
  /\ \E response \in responses :
       LET r == fetch_body(keywords[kw_index], response) IN
         /\ requests' = Append(requests, request_query(keywords[kw_index]))
         /\ fetch_log' = Append(fetch_log,
              [keyword |-> keywords[kw_index],
               outcome |-> IF response.ok THEN "fetched" ELSE "failed",
               articles |-> r.articles, at |-> now])
         /\ IF r.raised
            THEN /\ rpc' = "aborted"
                 /\ UNCHANGED <<all_articles, errors, cache>>
            ELSE /\ rpc' = "sleep"
                 /\ all_articles' = all_articles \o r.articles
                 /\ errors' = IF r.error THEN Append(errors, keywords[kw_index]) ELSE errors
                 /\ cache' = [cache EXCEPT ![keywords[kw_index]] =
                      [present |-> TRUE, stored_at |-> now,
                       articles |-> r.articles, error |-> r.error]]
  /\ UNCHANGED <<keywords, kw_index, now, df>>
  /\ UNCHANGED <<translateVars, classifyVars, filterVars, sessionVars>>

FetchFromProvider == FetchFromProviderOf(ProviderResponses)

\* Line 178: time.sleep(1), then the loop moves to the next keyword.
Sleep ==
  /\ rpc = "sleep"
  /\ now' = time_sleep(now)
  /\ kw_index' = kw_index + 1
  /\ rpc' = "fetch"
  /\ UNCHANGED <<keywords, all_articles, errors, requests, fetch_log, cache, df>>
  /\ UNCHANGED <<translateVars, classifyVars, filterVars, sessionVars>>

\* Lines 180-185: after the loop, deduplicate and return.
Return ==
  /\ rpc = "fetch" /\ kw_index > Len(keywords)
  /\ df' = dedup_frame(all_articles)
  /\ rpc' = "returned"
  /\ UNCHANGED <<keywords, kw_index, all_articles, errors, requests, fetch_log, cache, now>>
  /\ UNCHANGED <<translateVars, classifyVars, filterVars, sessionVars>>

RunNext == FetchCached \/ FetchFromProvider \/ Sleep \/ Return

InitRun == RunInit /\ TranslateOff /\ ClassifyOff /\ FilterOff /\ SessionOff

SpecRun == InitRun /\ [][RunNext]_vars

---------------------------------------------------------------------------
(* One rendering of the Search & Filter tab over a collected frame *)

FilterInit ==
  /\ has_result = TRUE
  /\ articles_df \in SessionFrames
  /\ search_term = <<>> /\ start_date = 0 /\ end_date = 0
  /\ selected_keywords = {} /\ selected_categories = {} /\ selected_sources = {}
  /\ filtered_df = <<>>
  /\ stats = NoStats
  /\ fpc = "collected"

\* One run of the tab: the widgets give their values (each multiselect a
\* subset of the values present in the frame), filtered_df is computed and
\* the results are displayed.
ApplyFilters ==
  /\ fpc = "collected" /\ has_result
  /\ \E term \in SearchTerms, start, end \in Days,
        kws \in SUBSET Column(articles_df, "Keyword"),
        cats \in SUBSET Column(articles_df, "Source_Category"),
        srcs \in SUBSET Column(articles_df, "Source") :
       /\ search_term' = term
       /\ start_date' = start
       /\ end_date' = end
       /\ selected_keywords' = kws
       /\ selected_categories' = cats
       /\ selected_sources' = srcs
       /\ filtered_df' = apply_filters(articles_df, term, start, end, kws, cats, srcs)
       /\ stats' = search_stats(articles_df, filtered_df', term, start, end,
                                kws, cats, srcs)
  /\ fpc' = "shown"
  /\ UNCHANGED <<has_result, articles_df, translateVars, classifyVars, runVars,
               sessionVars>>

InitFilter ==
  FilterInit /\ TranslateOff /\ ClassifyOff /\ RunOff /\ SessionOff

SpecFilter == InitFilter /\ [][ApplyFilters]_vars

---------------------------------------------------------------------------
(* The application: keyword management, the Collect button, the session *)

\* What can be typed beside "Add Keyword": nothing, blanks only, a keyword,
\* a keyword with blanks around it.
NewKeywordInputs ==
  { <<>>, <<" ", "\t">> }
    \cup KeywordPool
    \cup { <<" ">> \o k \o <<"\t", " ">> : k \in KeywordPool }

\* The time that passes between the end of one script run and a click on
\* "Collect Articles": the entry a one-keyword run has just left is then one
\* second younger than the cache lifetime, or exactly as old.
Delays == {TTL - 2, TTL - 1}

\* The provider's answers in the application: a failure, an empty feed, or
\* a feed of one entry that has a link and a date.
AppResponses ==
  { [ok |-> FALSE, entries |-> <<>>], [ok |-> TRUE, entries |-> <<>>] }
    \cup { [ok |-> TRUE, entries |-> <<e>>] :
             e \in {x \in EntryPool : x.link # "" /\ x.published # ""} }

\* The session keeping the articles of earlier runs beside the new ones.
session_after_collect_merged(session, frame, time, used) ==
  IF frame = <<>>
  THEN session
  ELSE [has_result |-> TRUE, articles_df |-> session.articles_df \o frame,
        collection_time |-> time, keywords_used |-> used]

\* Lines 314-320: an empty frame is not stored (a warning is shown); any
\* other frame replaces the three session entries.
session_after_collect(session, frame, time, used) ==
  IF frame = <<>>
  THEN session
  ELSE [has_result |-> TRUE, articles_df |-> frame,
        collection_time |-> time, keywords_used |-> used]

\* Lines 207-217: a click on "Add Keyword".
AddKeyword ==
  /\ rpc = "off" /\ clicks < MaxClicks
  /\ \E text \in NewKeywordInputs :
       /\ new_keyword' = text
       /\ custom_keywords' = add_keyword(custom_keywords, text)
  /\ button' = "add"
  /\ clicks' = clicks + 1
  /\ UNCHANGED <<collection_time, keywords_used>>
  /\ UNCHANGED <<translateVars, classifyVars, runVars, filterVars>>

\* Lines 224-237: a click on the delete button of one row of the list.
DeleteKeyword ==
  /\ rpc = "off" /\ clicks < MaxClicks
  /\ \E n \in 1..Len(custom_keywords) :
       custom_keywords' = delete_keyword(custom_keywords, n)
  /\ button' = "delete"
  /\ clicks' = clicks + 1
  /\ UNCHANGED <<new_keyword, collection_time, keywords_used>>
  /\ UNCHANGED <<translateVars, classifyVars, runVars, filterVars>>

\* Lines 240-242: a click on "Clear All Keywords".
ClearAllKeywords ==
  /\ rpc = "off" /\ clicks < MaxClicks
  /\ custom_keywords' = <<>>
  /\ button' = "clear"
  /\ clicks' = clicks + 1
  /\ UNCHANGED <<new_keyword, collection_time, keywords_used>>
  /\ UNCHANGED <<translateVars, classifyVars, runVars, filterVars>>

\* Lines 268, 300-309: a click on "Collect Articles", shown when the list
\* holds a keyword, some time after the last script run; collect_all_feeds
\* is called with the list.
ClickCollect ==
  /\ rpc = "off" /\ clicks < MaxClicks
  /\ Len(custom_keywords) > 0
  /\ \E delay \in Delays : now' = now + delay
  /\ keywords' = custom_keywords
  /\ kw_index' = 1
  /\ rpc' = "fetch"
  /\ button' = "collect"
  /\ clicks' = clicks + 1
  /\ UNCHANGED <<all_articles, errors, requests, fetch_log, cache, df>>
  /\ UNCHANGED <<custom_keywords, new_keyword, collection_time, keywords_used>>
  /\ UNCHANGED <<translateVars, classifyVars, filterVars>>

\* Lines 174-177 on a cache miss, the provider answering as in the
\* application.
AppFetchFromProvider == FetchFromProviderOf(AppResponses)

\* Lines 311-322: collect_all_feeds has returned; the frame is stored in the
\* session unless it is empty, and the script run ends.
FinishCollect ==
  /\ rpc = "returned" /\ button = "collect"
  /\ LET after == session_after_collect(
                    [has_result |-> has_result, articles_df |-> articles_df,
                     collection_time |-> collection_time,
                     keywords_used |-> keywords_used],
                    df, now, custom_keywords)
     IN  /\ has_result' = after.has_result
         /\ articles_df' = after.articles_df
         /\ collection_time' = after.collection_time
         /\ keywords_used' = after.keywords_used
  /\ keywords' = <<>> /\ kw_index' = 0 /\ all_articles' = <<>> /\ rpc' = "off"
  /\ errors' = <<>> /\ requests' = <<>> /\ fetch_log' = <<>> /\ df' = <<>>
  /\ UNCHANGED <<cache, now>>
  /\ UNCHANGED <<custom_keywords, new_keyword, button, clicks>>
  /\ UNCHANGED <<search_term, start_date, end_date, selected_keywords,
                 selected_categories, selected_sources, filtered_df, stats, fpc>>
  /\ UNCHANGED <<translateVars, classifyVars>>

Next ==
  \/ AddKeyword \/ DeleteKeyword \/ ClearAllKeywords
  \/ ClickCollect \/ FetchCached \/ AppFetchFromProvider \/ Sleep \/ Return
  \/ FinishCollect

Init == SessionOff /\ RunOff /\ FilterOff /\ TranslateOff /\ ClassifyOff

Spec == Init /\ [][Next]_vars

---------------------------------------------------------------------------
(* Claims about the translator *)

HasWord(s, w) == IsSubstring(w, s)
NoOperatorWord(s) == ~HasWord(s, <<"N", "O", "T">>) /\ ~HasWord(s, <<"A", "N", "D">>)
Parens(s) == SelectSeq(s, LAMBDA c : c \in {"(", ")"})

\* C5: translate rewrites "x NOT y" to "x -y" and "x AND y" to "x y" (x, y
\* free of operator words), leaves every expression without a " NOT " or
\* " AND " token (so "A OR B" and parenthesised groups) unchanged, keeps the
\* parentheses of any expression as they are, and substitutes NOT before
\* AND: "A AND NOT B" becomes "A -B", and in "A NOT AND B" the NOT rewrite
\* consumes the space the AND token needs, leaving "A -AND B".
C5_TranslatorCorrect ==
  tpc = "done" =>
    /\ \A i \in 0..Len(parse_arg) :
         LET x == Slice(parse_arg, 1, i)
             rest == Slice(parse_arg, i + 1, Len(parse_arg))
             y == Slice(rest, 6, Len(rest))
         IN  /\ (Slice(rest, 1, 5) = NOT_TOKEN /\ NoOperatorWord(x) /\ NoOperatorWord(y))
                  => parse_result = x \o <<" ", "-">> \o y
             /\ (Slice(rest, 1, 5) = AND_TOKEN /\ NoOperatorWord(x) /\ NoOperatorWord(y))
                  => parse_result = x \o <<" ">> \o y
    /\ parse_arg = <<"A", " ", "N", "O", "T", " ", "B">> => parse_result = <<"A", " ", "-", "B">>
    /\ parse_arg = <<"A", " ", "A", "N", "D", " ", "B">> => parse_result = <<"A", " ", "B">>
    /\ parse_arg = <<"A", " ", "O", "R", " ", "B">>
            => parse_result = <<"A", " ", "O", "R", " ", "B">>
    /\ parse_arg = <<"A", " ", "A", "N", "D", " ", "N", "O", "T", " ", "B">>
            => parse_result = <<"A", " ", "-", "B">>
    /\ parse_arg = <<"A", " ", "N", "O", "T", " ", "A", "N", "D", " ", "B">>
            => parse_result = <<"A", " ", "-", "A", "N", "D", " ", "B">>
    /\ (~IsSubstring(NOT_TOKEN, parse_arg) /\ ~IsSubstring(AND_TOKEN, parse_arg))
         => parse_result = parse_arg
    /\ Parens(parse_result) = Parens(parse_arg)

C5_Witness ==
  tpc = "done" /\ parse_arg = <<"(", "A", " ", "A", "N", "D", " ", "N", "O", "T", " ", "B", ")">>
          /\ parse_result = <<"(", "A", " ", "-", "B", ")">>

\* C16: for every input, the output of translate holds no " NOT " and no
\* " AND " token sequence (every occurrence has been rewritten, also when
\* operators repeat or are adjacent), so translating the output again
\* changes nothing.
C16_NoOperatorLeft ==
  tpc = "done" =>
    /\ ~IsSubstring(NOT_TOKEN, parse_result)
    /\ ~IsSubstring(AND_TOKEN, parse_result)
    /\ parse_boolean_search(parse_result) = parse_result

---------------------------------------------------------------------------
(* Claims about the classifier *)

SevenCategories ==
  {"Mainstream Media", "Trade Press", "Blogs/Independent", "Government/Academic",
   "NGO/Think Tank", "Local/Regional", "Other"}

\* C6: for every source name, the empty one included, the classifier returns
\* one of the seven categories, and the empty name is classified Other.
C6_ClassifierTotal ==
  cpc = "done" =>
    /\ source_category \in SevenCategories
    /\ source_name = <<>> => source_category = "Other"

C6_Witness == cpc = "done" /\ source_name = <<>> /\ source_category = "Other"

\* The order of evaluation the claim states, with each category's rule list.
RuleOrder ==
  << [category |-> "Mainstream Media",    terms |-> mainstream],
     [category |-> "Trade Press",         terms |-> trade_press],
     [category |-> "Government/Academic", terms |-> government_academic],
     [category |-> "NGO/Think Tank",      terms |-> ngo_thinktank],
     [category |-> "Blogs/Independent",   terms |-> blogs],
     [category |-> "Local/Regional",      terms |-> local_regional] >>

RuleMatches(i, name) ==
  \E t \in 1..Len(RuleOrder[i].terms) : IsSubstring(RuleOrder[i].terms[t], Lower(name))

\* C7: the category returned is that of the first rule list, in the order
\* MainstreamMedia, TradePress, GovernmentAcademic, NgoThinkTank,
\* BlogsIndependent, LocalRegional, with a term occurring in the lower-cased
\* name; a name matching a MainstreamMedia term and a LocalRegional term is
\* Mainstream Media.
C7_ClassifierPrecedence ==
  cpc = "done" =>
    /\ \A i \in 1..Len(RuleOrder) :
         (source_category = RuleOrder[i].category)
           <=> (RuleMatches(i, source_name) /\ \A j \in 1..(i - 1) : ~RuleMatches(j, source_name))
    /\ (RuleMatches(1, source_name) /\ RuleMatches(6, source_name))
         => source_category = "Mainstream Media"

C7_Witness ==
  /\ cpc = "done"
  /\ source_name = <<"T", "i", "m", "e", "s">>
  /\ RuleMatches(1, source_name) /\ RuleMatches(6, source_name)
  /\ source_category = "Mainstream Media"

---------------------------------------------------------------------------
(* Claims about a collection run *)

Indices(rows, url) == {n \in 1..Len(rows) : rows[n].URL = url}
Min(S) == CHOOSE n \in S : \A m \in S : n <= m

\* The articles the fetches of the run returned, in keyword order then
\* provider entry order, rebuilt from the per-keyword returns.
RECURSIVE Concat(_)
Concat(lists) == IF Len(lists) = 0 THEN <<>> ELSE lists[1] \o Concat(Tail(lists))
Fetched == Concat([n \in 1..Len(fetch_log) |-> fetch_log[n].articles])

\* C1: the result of a run holds exactly one Article for each distinct
\* non-empty URL the fetches returned, that Article is the first one with
\* the URL in keyword order then provider entry order, the Articles kept are
\* in that order, and no two Articles of the result share a non-empty URL.
C1_DedupFirstPerUrl ==
  rpc = "returned" =>
    /\ \A url \in {a.URL : a \in Range(Fetched)} \ {""} :
         /\ Cardinality(Indices(df, url)) = 1
         /\ df[Min(Indices(df, url))] = Fetched[Min(Indices(Fetched, url))]
    /\ \A m, n \in 1..Len(df) :
         (m < n /\ df[m].URL # "" /\ df[n].URL # "") =>
           /\ df[m].URL # df[n].URL
           /\ Min(Indices(Fetched, df[m].URL)) < Min(Indices(Fetched, df[n].URL))
    /\ \A n \in 1..Len(df) : df[n] \in Range(Fetched)

\* Two keywords returned the same URL with different titles, and a second URL.
C1_Witness ==
  /\ rpc = "returned"
  /\ Len(keywords) = 2
  /\ \E m, n \in 1..Len(Fetched) :
       /\ m < n /\ Fetched[m].URL = Fetched[n].URL /\ Fetched[m].URL # ""
       /\ Fetched[m].Title # Fetched[n].Title
       /\ Fetched[m].Keyword # Fetched[n].Keyword
       /\ Fetched[m] \in Range(df) /\ Fetched[n] \notin Range(df)
  /\ Cardinality({a.URL : a \in Range(df)} \ {""}) = 2

\* C2: Articles with an empty url are exempt from deduplication: every
\* Article with an empty url that a fetch of the run returned is in the
\* result, as many times as it was returned.
C2_EmptyUrlExempt ==
  rpc = "returned" =>
    \A a \in {b \in Range(Fetched) : b.URL = ""} :
      Cardinality({n \in 1..Len(df) : df[n] = a})
        = Cardinality({n \in 1..Len(Fetched) : Fetched[n] = a})

\* C3: every Article a fetch of keyword k returned, and so every Article of
\* the result, carries Keyword = k, the string the caller supplied; for a
\* keyword the translator rewrites, no Article carries the rewritten query.
C3_KeywordIsCallerString ==
  /\ \A n \in 1..Len(fetch_log) :
       /\ fetch_log[n].keyword = keywords[n]
       /\ \A a \in Range(fetch_log[n].articles) : a.Keyword = keywords[n]
  /\ \A a \in Range(all_articles) \cup Range(df) :
       /\ a.Keyword \in Range(keywords)
       /\ a.Keyword # <<"T", "e", "s", "l", "a", " ", "-", "s", "t", "o", "c", "k">>

C3_Witness ==
  /\ rpc = "returned"
  /\ keywords = << <<"T", "e", "s", "l", "a">>,
          <<"T", "e", "s", "l", "a", " ", "N", "O", "T", " ", "s", "t", "o", "c", "k">> >>
  /\ requests = << <<"T", "e", "s", "l", "a">>,
          <<"T", "e", "s", "l", "a", "+", "-", "s", "t", "o", "c", "k">> >>
  /\ \E a \in Range(df) : a.Keyword = <<"T", "e", "s", "l", "a">>
  /\ \E a \in Range(df) : a.Keyword = <<"T", "e", "s", "l", "a", " ", "N", "O", "T", " ", "s", "t", "o", "c", "k">>

\* C4: a failed provider request for one keyword contributes zero Articles
\* and is reported (an error is shown for the keyword); the run never
\* aborts: it goes on to every remaining keyword, and what it returns is the
\* deduplicated Articles of the keywords that succeeded.
C4_FailureIsNonFatal ==
  /\ rpc # "aborted"
  /\ \A n \in 1..Len(fetch_log) :
       fetch_log[n].outcome = "failed" =>
         /\ fetch_log[n].articles = <<>>
         /\ fetch_log[n].keyword \in Range(errors)
  /\ rpc = "returned" =>
       /\ Len(fetch_log) = Len(keywords)
       /\ \A n \in 1..Len(keywords) : fetch_log[n].keyword = keywords[n]
       /\ all_articles = Concat([n \in 1..Len(fetch_log) |->
            IF fetch_log[n].outcome = "failed" THEN <<>> ELSE fetch_log[n].articles])
       /\ df = dedup_frame(all_articles)

\* The first keyword's request failed, the second one's Articles are returned.
C4_Witness ==
  /\ rpc = "returned"
  /\ Len(fetch_log) = 2
  /\ fetch_log[1].outcome = "failed" /\ fetch_log[2].outcome = "fetched"
  /\ errors = <<keywords[1]>>
  /\ Len(df) = 2
  /\ \A a \in Range(df) : a.Keyword = keywords[2]

\* C13: a collection run over n keywords calls the collector exactly once
\* per keyword, one call after the other in input order, and the pacing
\* delay elapses after each keyword's fetch before the next keyword's fetch
\* starts; for n = 0 no fetch is performed and the result is empty.
C13_OnceEachInOrderPaced ==
  rpc \in {"fetch", "sleep", "returned"} =>
    /\ Len(fetch_log) = IF rpc = "fetch" THEN kw_index - 1 ELSE
                        IF rpc = "sleep" THEN kw_index ELSE Len(keywords)
    /\ Len(fetch_log) <= Len(keywords)
    /\ \A n \in 1..Len(fetch_log) : fetch_log[n].keyword = keywords[n]
    /\ \A n \in 2..Len(fetch_log) :
         fetch_log[n].at >= fetch_log[n - 1].at + PacingDelay
    /\ (rpc = "fetch" /\ fetch_log # <<>>) =>
         now >= fetch_log[Len(fetch_log)].at + PacingDelay
    /\ (rpc = "returned" /\ Len(keywords) = 0) =>
         fetch_log = <<>> /\ requests = <<>> /\ df = <<>>

\* A run over two keywords has returned; the second call, served from the
\* cache, still came a pacing delay after the first.
C13_Witness ==
  /\ rpc = "returned" /\ Len(keywords) = 2 /\ Len(fetch_log) = 2
  /\ fetch_log[1].outcome = "fetched" /\ fetch_log[2].outcome = "cached"
  /\ fetch_log[2].at = fetch_log[1].at + PacingDelay

---------------------------------------------------------------------------
(* Claims about the filter *)

\* The five predicates of the filter, as the specification states them.
InDateRange(a) ==
  \/ a.Published_Date.isna
  \/ /\ a.Published_Date.ts >= start_date * SecondsPerDay
     /\ a.Published_Date.ts < (end_date + 1) * SecondsPerDay
MatchesText(a) ==
  search_term = <<>> \/ str_contains(a.Title, search_term)
                     \/ str_contains(a.Description, search_term)
InSet(selected, value) == selected = {} \/ value \in selected
PassesSets(a) ==
  /\ InSet(selected_keywords, a.Keyword)
  /\ InSet(selected_categories, a.Source_Category)
  /\ InSet(selected_sources, a.Source)

\* C8: an Article whose published_at is null is in the filter output
\* whenever it satisfies the text, keyword, category and source predicates,
\* whatever the date range is and whether or not other Articles have dates.
C8_NullDatePasses ==
  fpc = "shown" =>
    \A a \in Range(articles_df) :
      (a.Published_Date.isna /\ MatchesText(a) /\ PassesSets(a))
        => a \in Range(filtered_df)

\* A null-dated Article is shown beside a dated one the range excludes.
C8_Witness ==
  /\ fpc = "shown"
  /\ start_date > end_date
  /\ \E a, b \in Range(articles_df) :
       /\ a.Published_Date.isna /\ a \in Range(filtered_df)
       /\ ~b.Published_Date.isna /\ b \notin Range(filtered_df)

\* C9: with no keyword selected the filter returns what it returns with
\* every keyword of the frame selected, the other widgets being equal.
C9_EmptyKeywordsIsAll ==
  (fpc = "shown" /\ selected_keywords = {}) =>
    filtered_df = apply_filters(articles_df, search_term, start_date, end_date,
                    Column(articles_df, "Keyword"), selected_categories, selected_sources)

C9_Witness ==
  /\ fpc = "shown" /\ selected_keywords = {}
  /\ Cardinality(Column(articles_df, "Keyword")) = 2
  /\ Cardinality(Column(filtered_df, "Keyword")) = 2

\* C10: the filter output is exactly the Articles of the collected frame, in
\* its order, that satisfy all five predicates (date range, text query,
\* keyword set, category set, source set), a set predicate being satisfied
\* iff the set is empty or holds the Article's value.
C10_OutputIsConjunction ==
  fpc = "shown" =>
    filtered_df = SelectSeq(articles_df,
                    LAMBDA a : InDateRange(a) /\ MatchesText(a) /\ PassesSets(a))

\* Every predicate is active, one Article passes all five and one fails.
C10_Witness ==
  /\ fpc = "shown"
  /\ search_term # <<>> /\ selected_keywords # {}
  /\ selected_categories # {} /\ selected_sources # {}
  /\ Len(filtered_df) = 1 /\ Len(articles_df) = 2
  /\ \E a \in Range(articles_df) :
       a \notin Range(filtered_df) /\ InDateRange(a) /\ MatchesText(a)
         /\ InSet(selected_keywords, a.Keyword) /\ InSet(selected_categories, a.Source_Category)
         /\ ~InSet(selected_sources, a.Source)

\* The text predicate as the specification states it: the query, every
\* character of it taken literally, is a substring of the title or of the
\* description, compared without regard to case; an empty query passes.
LiteralContains(text, q) == IsSubstring(Lower(q), Lower(text))
MatchesLiteralText(a) ==
  search_term = <<>> \/ LiteralContains(a.Title, search_term)
                     \/ LiteralContains(a.Description, search_term)

\* C11: an Article satisfies the text predicate iff the query is a
\* case-insensitive literal substring of its title or description (no
\* character of the query is a pattern operator), an empty query passing
\* every Article; the filter output is the Articles that satisfy it and the
\* other four predicates.
C11_TextIsLiteral ==
  fpc = "shown" =>
    filtered_df = SelectSeq(articles_df,
                    LAMBDA a : InDateRange(a) /\ MatchesLiteralText(a) /\ PassesSets(a))


\* The number of Articles passing every filter except the text query.
BeforeSearchCount ==
  Len(SelectSeq(articles_df, LAMBDA a : InDateRange(a) /\ PassesSets(a)))

\* The stats record holds the three figures of the claim; the rate, in
\* tenths of a percent, is the tenth nearest to matches / before * 100, and
\* is 0 when before is 0.
StatsAreRight ==
  /\ stats.reported
  /\ stats.articles_before_search = BeforeSearchCount
  /\ stats.search_matches = Len(filtered_df)
  /\ IF BeforeSearchCount = 0
     THEN stats.match_rate = 0
     ELSE LET d == stats.match_rate * BeforeSearchCount
                     - 1000 * Len(filtered_df)
          IN  2 * d <= BeforeSearchCount /\ -2 * d <= BeforeSearchCount

\* C12, as stated: whenever a text query is active, stats reports
\* before_search_count (the Articles passing every filter except the text
\* query), matches (the size of the filter output) and match_rate =
\* matches / before_search_count * 100, 0 when the count is 0; for every
\* filter combination, also when no Article matches the text query.
C12_StatsWheneverSearchActive ==
  (fpc = "shown" /\ search_term # <<>>) => StatsAreRight

\* C12, amended: whenever a text query is active and the filter output is
\* not empty, stats reports the three figures as above; when the filter
\* output is empty no figure is reported.
C12_StatsWhenMatches ==
  /\ (fpc = "shown" /\ search_term # <<>> /\ Len(filtered_df) > 0)
       => StatsAreRight
  /\ (fpc = "shown" /\ Len(filtered_df) = 0) => ~stats.reported

\* One of two Articles that pass the other filters matches the query: 50.0.
C12_Witness ==
  /\ fpc = "shown" /\ search_term # <<>>
  /\ stats.reported
  /\ stats.articles_before_search = 2 /\ stats.search_matches = 1
  /\ stats.match_rate = 500

---------------------------------------------------------------------------
(* Claims about the session *)

\* c is text without its surrounding whitespace.
IsStripOf(c, text) ==
  \E a, b \in 0..Len(text) :
    /\ a <= b
    /\ c = [n \in 1..(b - a) |-> text[a + n]]
    /\ \A n \in 1..a : text[n] \in Whitespace
    /\ \A n \in (b + 1)..Len(text) : text[n] \in Whitespace
    /\ c # <<>> => (c[1] \notin Whitespace /\ c[Len(c)] \notin Whitespace)
    /\ c = <<>> => a = b /\ a = 0

\* No duplicate, no empty or whitespace-only entry, every entry stripped.
KeywordListIsClean ==
  /\ \A m, n \in 1..Len(custom_keywords) :
       m # n => custom_keywords[m] # custom_keywords[n]
  /\ \A n \in 1..Len(custom_keywords) :
       /\ \E m \in 1..Len(custom_keywords[n]) :
            custom_keywords[n][m] \notin Whitespace
       /\ IsStripOf(custom_keywords[n], custom_keywords[n])

\* What one step may do to the list: an add appends the stripped text at the
\* end, or leaves the list alone when the text is blank or already present;
\* a delete takes one entry out and keeps the order of the others; a clear
\* empties the list; no other step touches it.
KeywordListStep ==
  /\ (button' = "add" /\ clicks' = clicks + 1) =>
       \E c \in {custom_keywords[n] : n \in 1..Len(custom_keywords)}
                  \cup {strip(new_keyword')} :
         /\ IsStripOf(c, new_keyword')
         /\ custom_keywords' =
              IF c = <<>> \/ \E n \in 1..Len(custom_keywords) : custom_keywords[n] = c
              THEN custom_keywords
              ELSE Append(custom_keywords, c)
  /\ (button' = "delete" /\ clicks' = clicks + 1) =>
       \E n \in 1..Len(custom_keywords) :
         custom_keywords' =
           [m \in 1..(Len(custom_keywords) - 1) |->
              IF m < n THEN custom_keywords[m] ELSE custom_keywords[m + 1]]
  /\ (button' = "clear" /\ clicks' = clicks + 1) => custom_keywords' = <<>>
  /\ clicks' = clicks => custom_keywords' = custom_keywords
  /\ (button' = "collect" /\ clicks' = clicks + 1) =>
       custom_keywords' = custom_keywords

\* C18: after any sequence of add-keyword, delete-keyword and clear-all
\* operations the keyword list holds no duplicate and no empty or
\* whitespace-only entry, every entry is stored stripped of surrounding
\* whitespace, in insertion order, and adding a keyword that is already
\* present leaves the list unchanged.
C18_KeywordListClean == []KeywordListIsClean /\ [][KeywordListStep]_vars

\* "Tesla" with blanks around it was added to a list that already held
\* "Tesla" in first place: the list is as it was.
C18_Witness ==
  /\ button = "add" /\ clicks = 3
  /\ new_keyword = <<" ">> \o <<"T", "e", "s", "l", "a">> \o <<"\t", " ">>
  /\ Len(custom_keywords) = 2
  /\ custom_keywords[1] = <<"T", "e", "s", "l", "a">>

\* Every stored entry holds Articles of the keyword it is stored under.
CacheKeyedByKeyword ==
  \A k \in KeywordPool :
    \A n \in 1..Len(cache[k].articles) : cache[k].articles[n].Keyword = k

\* One call of the collector for keyword k: with an entry of k younger than
\* the TTL it returns the stored Articles, sends nothing to the provider and
\* leaves the cache alone; with an entry as old as the TTL or older, or with
\* none, it sends k's request to the provider; entries of other keywords are
\* neither read nor written.
FetchStepUsesCache ==
  (rpc = "fetch" /\ rpc' = "sleep") =>
    LET k == keywords[kw_index]
        returned == fetch_log'[Len(fetch_log')].articles
    IN  /\ (cache[k].present /\ now - cache[k].stored_at < TTL) =>
             /\ requests' = requests
             /\ returned = cache[k].articles
             /\ cache' = cache
        /\ (cache[k].present /\ now - cache[k].stored_at >= TTL) =>
             /\ requests' = Append(requests, request_query(k))
             /\ cache'[k].stored_at = now
        /\ ~cache[k].present =>
             requests' = Append(requests, request_query(k))
        /\ \A a \in {returned[n] : n \in 1..Len(returned)} : a.Keyword = k
        /\ \A other \in KeywordPool \ {k} : cache'[other] = cache[other]

\* C15: the fetch cache is keyed by the original, untranslated keyword and
\* has a time-to-live of 3600 s: a fetch of k made less than the TTL after
\* k's entry was stored returns the stored Articles without a provider
\* request, the first fetch of k after the TTL has elapsed goes to the
\* provider again, and an entry of one keyword is never returned for
\* another.
C15_CacheByKeywordWithTtl ==
  []CacheKeyedByKeyword /\ [][FetchStepUsesCache]_vars

\* A keyword is served from an entry stored one second less than the TTL
\* ago.
C15_Witness ==
  /\ rpc = "sleep" /\ fetch_log # <<>>
  /\ LET last == fetch_log[Len(fetch_log)]
     IN  /\ last.outcome = "cached"
         /\ last.articles # <<>>
         /\ last.at - cache[last.keyword].stored_at = TTL - 1
         /\ requests = <<>>

\* C17: only successfully fetched feeds are served from the cache: when the
\* fetch of keyword k has failed (a transport or parse failure, giving zero
\* Articles), the next run that includes k sends a new provider request for
\* k, also when it starts before the cache time-to-live has elapsed; so no
\* call of the collector is answered from an entry that a failed fetch left.
C17_FailuresAreNotCached ==
  \A n \in 1..Len(fetch_log) :
    fetch_log[n].outcome = "cached" => ~cache[fetch_log[n].keyword].error

\* The session holds exactly the result of the run that has just returned.
SessionIsThisRun ==
  /\ has_result'
  /\ articles_df' = df
  /\ collection_time' = now
  /\ keywords_used' = keywords

SessionUntouched ==
  UNCHANGED <<has_result, articles_df, collection_time, keywords_used>>

\* C14, as stated: after every completed collection run the result held by
\* the session (articles_df, collection_time, keywords_used) is exactly that
\* run's result: it replaces any prior result and no Article of an earlier
\* run remains, for any sequence of runs, a run that finds no Articles
\* included.
C14_SessionIsLastRun ==
  [][(rpc = "returned" /\ rpc' = "off") => SessionIsThisRun]_vars

\* C14, amended: after every completed collection run that finds at least
\* one Article the session holds exactly that run's result, which replaces
\* any prior result, no Article of an earlier run remaining; a run that
\* finds no Articles stores nothing and leaves the session as it was, and
\* nothing else writes the session result: it is always the result of the
\* latest run that found Articles.
C14_SessionIsLastNonEmptyRun ==
  [][/\ (rpc = "returned" /\ rpc' = "off" /\ df # <<>>) => SessionIsThisRun
     /\ (rpc = "returned" /\ rpc' = "off" /\ df = <<>>) => SessionUntouched
     /\ ~(rpc = "returned" /\ rpc' = "off") => SessionUntouched]_vars

\* The session holds the result of a second run over the same keyword, made
\* when the cache entry of the first run had expired: one Article, the
\* time the run ended and the keyword list.
C14_Witness ==
  /\ rpc = "off" /\ button = "collect" /\ clicks = 3
  /\ has_result /\ Len(articles_df) = 1
  /\ keywords_used = custom_keywords
  /\ collection_time > 2 * (TTL - 2)
  /\ \E k \in KeywordPool :
       /\ cache[k].present /\ cache[k].stored_at = collection_time - PacingDelay
       /\ cache[k].articles = articles_df

===========================================================================
